---- MODULE Spec2Model ----
(***************************************************************************)
(* Client-side session layer of the retrieval-augmented chat application:  *)
(* the conversation session manager (hook useConversations) and the upload *)
(* lifecycle manager (hook useFileUpload), as state machines.              *)
(*                                                                         *)
(* React scheduling as modelled here: an event handler runs against the    *)
(* state of the last committed render, its state updates are batched and   *)
(* committed together, and the effects whose dependencies changed run      *)
(* after the commit and before the next handler (action RunEffects).       *)
(* Strings are sequences of UTF-16 code units.                             *)
(***************************************************************************)
EXTENDS Integers, Sequences, FiniteSets, TLC

\* ------------------------------------------------------------------ bounds
\* handler calls in one run of useConversations
MaxSteps == 3

\* ------------------------------------------------------- strings and dates
\* 'New Chat'
NewChat == <<78, 101, 119, 32, 67, 104, 97, 116>>
\* '...' (three full stops), the suffix addMessageToConversation appends
Dots == <<46, 46, 46>>
\* the code units String.prototype.trim removes (tab, LF, VT, FF, CR, space, NBSP)
WhiteSpace == {9, 10, 11, 12, 13, 32, 160}
\* the length the derived title is cut to
TitleLimit == 30

Min(a, b) == IF a < b THEN a ELSE b

\* n copies of code unit c
Rep(c, n) == [i \in 1..n |-> c]

RECURSIVE TrimStart(_)
TrimStart(s) ==
    IF s = <<>> THEN s
    ELSE IF Head(s) \in WhiteSpace THEN TrimStart(Tail(s)) ELSE s

RECURSIVE TrimEnd(_)
TrimEnd(s) ==
    IF s = <<>> THEN s
    ELSE IF s[Len(s)] \in WhiteSpace THEN TrimEnd(SubSeq(s, 1, Len(s) - 1)) ELSE s

\* String.prototype.trim
Trim(s) == TrimEnd(TrimStart(s))

\* s.slice(0, n)
Slice(s, n) == SubSeq(s, 1, Min(n, Len(s)))

\* a Date object holding instant t, and the ISO text Date.prototype.toJSON gives
DateOf(t) == <<"Date", t>>
IsoOf(t) == <<"iso", t>>
IsDate(v) == v[1] = "Date"
\* new Date(v): from ISO text or from another Date
NewDate(v) == <<"Date", v[2]>>
\* what JSON.stringify writes for a value that may be a Date
ToJSON(v) == IF IsDate(v) THEN IsoOf(v[2]) ELSE v

\* ------------------------------------------------------------- sequences
MapSeq(s, F(_)) == [i \in 1..Len(s) |-> F(s[i])]
Ids(s) == {s[i].id : i \in 1..Len(s)}

\* -------------------------------------------------------------- inputs
\* an identifier no uuidv4() call ever returned
StrayId == 0
\* currentConversationId before anything is selected (null)
Null == -1
\* identifiers of conversations persisted by an earlier session
OldIds == {101, 102}

\* message contents the callers pass: blank, exactly TitleLimit code units,
\* and one more than TitleLimit
Contents == { <<32, 32>>, Rep(97, TitleLimit), Rep(98, TitleLimit + 1) }
Roles == {"user", "assistant"}
\* titles the title editor passes to updateConversationTitle
TitleInputs == { <<32>>, <<32, 84>> }
\* texts passed to updateConversationMetaInformation
MetaInputs == { <<109>> }

\* a Message as the callers build it: the timestamp is an instant
Message(role, content, t) ==
    [role |-> role, content |-> content, timestamp |-> DateOf(t)]

VARIABLES
    conversations,          \* useState<Conversation[]>
    currentConversationId,  \* useState<string | null>
    isInitialized,          \* useState(false)
    store,                  \* localStorage item 'conversations'
    pending,                \* effects scheduled by the last commit
    nextId,                 \* next identifier uuidv4() returns
    now,                    \* next instant new Date() returns
    lastOp,                 \* history: the last operation and its arguments
    strayed,                \* history: the cursor was last set by a selection of an id outside the collection
    initRuns,               \* history: times the initialization protocol ran
    received,               \* history: ids of the conversations that have received a message
    steps,                  \* history: handler calls and request answers so far
    uploadedFiles,          \* useState<UploadedFile[]>
    isUploading,            \* useState(false)
    fileStore,              \* localStorage item 'uploadedFiles'
    filePending,            \* effects of useFileUpload scheduled by the last commit
    calls,                  \* the uploadFiles invocations, each with its position
    timers,                 \* setTimeout callbacks not yet fired, oldest first
    deletions,              \* DELETE requests in flight
    nextDoc,                \* next document_id the backend assigns
    issued,                 \* history: the documentId each local id was inserted with
    kbFiles,                \* useState<KnowledgeBaseFile[]>, `files` of useFileList
    isLoading,              \* useState(true)
    error,                  \* useState<string | null>: <<>> for null, <<message>> for a string
    listPending,            \* the mount effect of useFileList has not run yet
    fetches,                \* fetchFiles calls whose request has not ended, by call number
    latest                  \* history: what the newest fetchFiles call left, once it has ended

\* the state of useConversations and its history
conversationVars == <<conversations, currentConversationId, isInitialized, store,
                      pending, strayed, initRuns, received>>
\* the state of useFileUpload
uploadVars == <<uploadedFiles, isUploading, fileStore, filePending, calls,
                timers, deletions, nextDoc, issued>>
\* the state of useFileList
listVars == <<kbFiles, isLoading, error, listPending, fetches, latest>>
vars == <<conversationVars, uploadVars, listVars, nextId, now, lastOp, steps>>

\* ------------------------------------------------- persisted snapshots
\* JSON.stringify of one message / conversation: a Date is written as ISO text
SerializeMessage(m) == [m EXCEPT !.timestamp = ToJSON(m.timestamp)]
SerializeConversation(c) ==
    [c EXCEPT !.lastUpdated = ToJSON(c.lastUpdated),
              !.messages = MapSeq(c.messages, SerializeMessage)]
\* mutant: only the first conversation is written
JSONStringify_FirstOnly(convs) ==
    MapSeq(SubSeq(convs, 1, Min(1, Len(convs))), SerializeConversation)
\* JSON.stringify(conversations), held as the value JSON.parse gives back
JSONStringify(convs) == MapSeq(convs, SerializeConversation)

\* the load effect's revival of a parsed snapshot
ReviveConversation(conv) == [conv EXCEPT !.lastUpdated = NewDate(conv.lastUpdated)]
Revive(parsed) == MapSeq(parsed, ReviveConversation)

Absent == [present |-> FALSE, value |-> <<>>]
Stored(v) == [present |-> TRUE, value |-> v]

Old1 ==
    [id |-> 101, title |-> <<72, 105>>,
     messages |-> << [role |-> "user", content |-> <<72, 105>>, timestamp |-> IsoOf(0)] >>,
     lastUpdated |-> IsoOf(0), metaInformation |-> <<>>]
Old2 ==
    [id |-> 102, title |-> NewChat, messages |-> <<>>,
     lastUpdated |-> IsoOf(0), metaInformation |-> <<109>>]
\* what localStorage may hold when the hook mounts
StoredSnapshots == {Absent, Stored(<<>>), Stored(<<Old1, Old2>>)}

\* ------------------------------------------------------ state updaters
\* mutant: the new conversation gets an empty title
NewConversation_Untitled(id, t) ==
    [id |-> id, title |-> <<>>, messages |-> <<>>,
     lastUpdated |-> DateOf(t), metaInformation |-> <<>>]
NewConversation(id, t) ==
    [id |-> id, title |-> NewChat, messages |-> <<>>,
     lastUpdated |-> DateOf(t), metaInformation |-> <<>>]

\* mutant: the new conversation replaces the collection
Prepend_Alone(prev, conv) == <<conv>>
\* prev => [newConversation, ...prev]
Prepend(prev, conv) == <<conv>> \o prev

\* mutant: the trimmed title is stored
StoredTitle_Trimmed(title) == IF Trim(title) # <<>> THEN Trim(title) ELSE NewChat
\* title.trim() ? title : 'New Chat'
StoredTitle(title) == IF Trim(title) # <<>> THEN title ELSE NewChat

\* the updater of updateConversationTitle
WithTitle(prev, conversationId, title) ==
    MapSeq(prev, LAMBDA conv :
        IF conv.id = conversationId
        THEN [conv EXCEPT !.title = StoredTitle(title)]
        ELSE conv)

\* the updater of updateConversationMetaInformation
WithMeta(prev, conversationId, metaInformation) ==
    MapSeq(prev, LAMBDA conv :
        IF conv.id = conversationId
        THEN [conv EXCEPT !.metaInformation = metaInformation]
        ELSE conv)

\* prev.filter(conv => conv.id !== conversationId)
Without(prev, conversationId) ==
    SelectSeq(prev, LAMBDA conv : conv.id # conversationId)

\* message.content.slice(0, 30) + (message.content.length > 30 ? '...' : '')
DerivedTitle(content) ==
    Slice(content, TitleLimit) \o (IF Len(content) > TitleLimit THEN Dots ELSE <<>>)

\* mutant: every user message derives the title
IsFirstUserMessage_AnyUser(conv, message) == message.role = "user"
\* conv.messages.length === 0 && message.role === 'user'
IsFirstUserMessage(conv, message) ==
    Len(conv.messages) = 0 /\ message.role = "user"

\* the value the updater of addMessageToConversation returns
WithMessage(prev, conversationId, message, t) ==
    MapSeq(prev, LAMBDA conv :
        IF conv.id = conversationId
        THEN [conv EXCEPT !.messages = Append(conv.messages, message),
                          !.lastUpdated = DateOf(t)]
        ELSE conv)

\* the title updates the updater of addMessageToConversation enqueues while
\* it runs (it calls updateConversationTitle from inside the updater)
RECURSIVE NestedTitleUpdates(_, _, _, _)
NestedTitleUpdates(state, prev, conversationId, message) ==
    IF prev = <<>> THEN state
    ELSE NestedTitleUpdates(
            IF Head(prev).id = conversationId /\ IsFirstUserMessage(Head(prev), message)
            THEN WithTitle(state, Head(prev).id, DerivedTitle(message.content))
            ELSE state,
            Tail(prev), conversationId, message)

\* The state committed after addMessageToConversation.  The updater enqueues a
\* second update of the same state while it runs.  When React runs the
\* updater eagerly, inside the handler, the nested update is queued before
\* the outer one and the outer one's precomputed result replaces it; when
\* the updater runs during the render, the nested update is a render-phase
\* update applied on top of the outer one's result.
AfterAddMessage(prev, conversationId, message, t, eager) ==
    IF eager
    THEN WithMessage(prev, conversationId, message, t)
    ELSE NestedTitleUpdates(WithMessage(prev, conversationId, message, t),
                            prev, conversationId, message)

\* mutant: the current conversation is dropped from the collection
Cleared_Dropped(prev, current, t) == SelectSeq(prev, LAMBDA conv : conv.id # current)
\* the updater of clearCurrentConversation
Cleared(prev, current, t) ==
    MapSeq(prev, LAMBDA conv :
        IF conv.id = current
        THEN [conv EXCEPT !.messages = <<>>, !.lastUpdated = DateOf(t), !.title = NewChat]
        ELSE conv)

\* mutant: the comparison with the current id is inverted
DeletesCurrent_Inverted(current, conversationId) == current # conversationId
\* mutant: the deleted conversation is not filtered out of the closure's list
Remaining_Unfiltered(convs, conversationId) == convs
\* mutant: the remaining conversations are taken last first
Remaining_Reversed(convs, conversationId) ==
    LET r == Without(convs, conversationId)
    IN  [i \in 1..Len(r) |-> r[Len(r) + 1 - i]]
\* deleteConversation: whether the cursor moves, and where to
DeletesCurrent(current, conversationId) == current = conversationId
Remaining(convs, conversationId) == Without(convs, conversationId)

\* --------------------------------------------------------------- effects
\* the load effect passes its latch: if (isInitialized) return
LoadEffectRuns(pend, initialized) == "load" \in pend /\ ~initialized
\* mutant: the save effect has no latch
SaveEffectWrites_NoLatch(pend, initialized) == "save" \in pend
\* the save effect passes its latch: if (!isInitialized) return
SaveEffectWrites(pend, initialized) == "save" \in pend /\ initialized
\* if (savedConversations) { parsed = JSON.parse(...); if (parsed.length > 0)
HasSnapshot(item) == item.present /\ Len(item.value) > 0

Op(op, id, arg) == [op |-> op, id |-> id, arg |-> arg]

\* useFileUpload not mounted
UploadDormant ==
    /\ uploadedFiles = <<>>
    /\ isUploading = FALSE
    /\ fileStore = Absent
    /\ filePending = {}
    /\ calls = <<>>
    /\ timers = <<>>
    /\ deletions = {}
    /\ nextDoc = 1
    /\ issued = {}

\* useFileList not mounted
ListDormant ==
    /\ kbFiles = <<>>
    /\ isLoading = TRUE
    /\ error = <<>>
    /\ listPending = FALSE
    /\ fetches = {}
    /\ latest = <<>>

Init ==
    /\ conversations = <<>>
    /\ currentConversationId = Null
    /\ isInitialized = FALSE
    /\ store \in StoredSnapshots
    /\ pending = {"load", "save"}
    /\ nextId = 1
    /\ now = 1
    /\ lastOp = Op("mount", Null, <<>>)
    /\ steps = 0
    /\ strayed = FALSE
    /\ initRuns = 0
    /\ received = {}
    /\ UploadDormant
    /\ ListDormant

\* the handlers run once the effects of the last commit have run
Idle == pending = {} /\ isInitialized
\* the run has a handler call left
CanCall == steps < MaxSteps

\* one pass of the effects scheduled by the last commit: the load effect,
\* then the save effect, both reading the state of that commit
RunEffects ==
    /\ pending # {}
    /\ IF LoadEffectRuns(pending, isInitialized)
       THEN /\ IF HasSnapshot(store)
               THEN /\ conversations' = Revive(store.value)
                    /\ currentConversationId' = store.value[1].id
                    /\ received' = {store.value[i].id : i \in
                                       {j \in 1..Len(store.value) :
                                           store.value[j].messages # <<>>}}
                    /\ UNCHANGED <<nextId, now>>
               ELSE /\ conversations' = Prepend(conversations, NewConversation(nextId, now))
                    /\ currentConversationId' = nextId
                    /\ nextId' = nextId + 1
                    /\ now' = now + 1
                    /\ UNCHANGED received
            /\ isInitialized' = TRUE
            /\ initRuns' = initRuns + 1
            /\ pending' = {"load", "save"}
       ELSE /\ pending' = {}
            /\ UNCHANGED <<conversations, currentConversationId, isInitialized,
                           nextId, now, initRuns, received>>
    /\ store' = IF SaveEffectWrites(pending, isInitialized)
                THEN Stored(JSONStringify(conversations))
                ELSE store
    /\ lastOp' = Op("effects", Null, <<>>)
    /\ UNCHANGED <<strayed, steps>>
    /\ UNCHANGED <<uploadVars, listVars>>

createNewConversation ==
    /\ Idle /\ CanCall
    /\ steps' = steps + 1
    /\ conversations' = Prepend(conversations, NewConversation(nextId, now))
    /\ currentConversationId' = nextId
    /\ nextId' = nextId + 1
    /\ now' = now + 1
    /\ pending' = {"save"}
    /\ lastOp' = Op("create", nextId, <<>>)
    /\ strayed' = FALSE
    /\ UNCHANGED <<isInitialized, store, initRuns, received>>
    /\ UNCHANGED <<uploadVars, listVars>>

\* selectConversation: the state setter itself, handed to the callers
setCurrentConversationId(id) ==
    /\ Idle /\ CanCall
    /\ steps' = steps + 1
    /\ currentConversationId' = id
    /\ strayed' = (id \notin Ids(conversations))
    /\ lastOp' = Op("select", id, <<>>)
    /\ UNCHANGED <<conversations, isInitialized, store, pending, nextId, now, initRuns, received>>
    /\ UNCHANGED <<uploadVars, listVars>>

updateConversationTitle(conversationId, title) ==
    /\ Idle /\ CanCall
    /\ steps' = steps + 1
    /\ conversations' = WithTitle(conversations, conversationId, title)
    /\ pending' = {"save"}
    /\ lastOp' = Op("title", conversationId, title)
    /\ UNCHANGED <<currentConversationId, isInitialized, store, nextId, now,
                   strayed, initRuns, received>>
    /\ UNCHANGED <<uploadVars, listVars>>

updateConversationMetaInformation(conversationId, metaInformation) ==
    /\ Idle /\ CanCall
    /\ steps' = steps + 1
    /\ conversations' = WithMeta(conversations, conversationId, metaInformation)
    /\ pending' = {"save"}
    /\ lastOp' = Op("meta", conversationId, metaInformation)
    /\ UNCHANGED <<currentConversationId, isInitialized, store, nextId, now,
                   strayed, initRuns, received>>
    /\ UNCHANGED <<uploadVars, listVars>>

deleteConversation(conversationId) ==
    /\ Idle /\ CanCall
    /\ steps' = steps + 1
    /\ IF DeletesCurrent(currentConversationId, conversationId)
       THEN IF Remaining(conversations, conversationId) # <<>>
            THEN /\ conversations' = Without(conversations, conversationId)
                 /\ currentConversationId' = Remaining(conversations, conversationId)[1].id
                 /\ strayed' = FALSE
                 /\ UNCHANGED <<nextId, now>>
            ELSE /\ conversations' = Prepend(Without(conversations, conversationId),
                                             NewConversation(nextId, now))
                 /\ currentConversationId' = nextId
                 /\ strayed' = FALSE
                 /\ nextId' = nextId + 1
                 /\ now' = now + 1
       ELSE /\ conversations' = Without(conversations, conversationId)
            /\ UNCHANGED <<currentConversationId, strayed, nextId, now>>
    /\ pending' = {"save"}
    /\ lastOp' = Op("delete", conversationId, currentConversationId)
    /\ UNCHANGED <<isInitialized, store, initRuns, received>>
    /\ UNCHANGED <<uploadVars, listVars>>

addMessageToConversation(conversationId, role, content, eager) ==
    /\ Idle /\ CanCall
    /\ steps' = steps + 1
    /\ conversations' = AfterAddMessage(conversations, conversationId,
                                        Message(role, content, now), now, eager)
    /\ now' = now + 1
    /\ pending' = {"save"}
    /\ lastOp' = Op("add", conversationId, Message(role, content, now))
    /\ received' = received \cup (Ids(conversations) \cap {conversationId})
    /\ UNCHANGED <<currentConversationId, isInitialized, store, nextId,
                   strayed, initRuns>>
    /\ UNCHANGED <<uploadVars, listVars>>

\* window.confirm(...) answered by the user
\* mutant: the answer of the confirmation dialog is ignored
Proceeds_Always(confirmed) == TRUE
\* if (window.confirm(...))
Proceeds(confirmed) == confirmed

clearConversations(confirmed) ==
    /\ Idle /\ CanCall
    /\ steps' = steps + 1
    /\ IF Proceeds(confirmed)
       THEN /\ conversations' = Prepend(<<>>, NewConversation(nextId, now))
            /\ currentConversationId' = nextId
            /\ nextId' = nextId + 1
            /\ now' = now + 1
            /\ pending' = {"save"}
            /\ strayed' = FALSE
       ELSE UNCHANGED <<conversations, currentConversationId, nextId, now,
                        pending, strayed>>
    /\ lastOp' = Op("clearAll", Null, confirmed)
    /\ UNCHANGED <<isInitialized, store, initRuns, received>>
    /\ UNCHANGED <<uploadVars, listVars>>

clearCurrentConversation(confirmed) ==
    /\ Idle /\ CanCall
    /\ steps' = steps + 1
    /\ IF Proceeds(confirmed)
       THEN /\ conversations' = Cleared(conversations, currentConversationId, now)
            /\ now' = now + 1
            /\ pending' = {"save"}
       ELSE UNCHANGED <<conversations, now, pending>>
    /\ lastOp' = Op("clearCurrent", currentConversationId, confirmed)
    /\ UNCHANGED <<currentConversationId, isInitialized, store, nextId,
                   strayed, initRuns, received>>
    /\ UNCHANGED <<uploadVars, listVars>>

\* identifiers the callers pass: those on display, and one that is not
CallerIds == Ids(conversations) \cup {StrayId}

Next ==
    \/ RunEffects
    \/ createNewConversation
    \/ \E id \in CallerIds : setCurrentConversationId(id)
    \/ \E id \in CallerIds, title \in TitleInputs : updateConversationTitle(id, title)
    \/ \E id \in CallerIds, meta \in MetaInputs : updateConversationMetaInformation(id, meta)
    \/ \E id \in CallerIds : deleteConversation(id)
    \/ \E id \in CallerIds, role \in Roles, content \in Contents, eager \in BOOLEAN :
          addMessageToConversation(id, role, content, eager)
    \/ \E confirmed \in BOOLEAN : clearConversations(confirmed)
    \/ \E confirmed \in BOOLEAN : clearCurrentConversation(confirmed)

Spec == Init /\ [][Next]_vars

\* ====================================================== conversation claims
\* the conversation with this id, where the collection holds it
At(convs, id) == {i \in 1..Len(convs) : convs[i].id = id}
\* the state right after the load effect's updates are committed, before
\* the save effect has written anything
JustInitialized == isInitialized /\ pending = {"load", "save"}

\* C1 (as stated): once initialization has completed, the conversation
\* collection holds at least one conversation, whatever operations are called.
C1_NeverEmpty == isInitialized => Len(conversations) >= 1

\* C1 (amended): once initialization has completed, the collection holds at
\* least one conversation unless the cursor was last set by a
\* selectConversation call with an id outside the collection.
C1_NeverEmptyUnlessStrayed ==
    isInitialized => (Len(conversations) >= 1 \/ strayed)

\* the only conversation, the current one, has just been deleted and a new
\* one stands in its place
C1_Witness ==
    /\ isInitialized /\ ~strayed
    /\ lastOp.op = "delete" /\ lastOp.arg = lastOp.id
    /\ Len(conversations) = 1
    /\ conversations[1].id = nextId - 1
    /\ conversations[1].id # lastOp.id

\* C2 (as stated): once initialization has completed, the current id names a
\* conversation of the collection, whatever operations are called.
C2_CurrentExists ==
    isInitialized => currentConversationId \in Ids(conversations)

\* C2 (amended): once initialization has completed, the current id names a
\* conversation of the collection unless it was last set by a
\* selectConversation call with an id outside the collection.
C2_CurrentExistsUnlessStrayed ==
    isInitialized => (currentConversationId \in Ids(conversations) \/ strayed)

\* the current conversation was deleted while two others remained
C2_Witness ==
    /\ lastOp.op = "delete" /\ lastOp.arg = lastOp.id
    /\ Len(conversations) >= 2
    /\ currentConversationId \in Ids(conversations)

\* C3: initialization from a store with no conversation snapshot (no item, or
\* an empty list) ends with exactly one conversation, titled 'New Chat', with
\* no messages, which is the current one.
C3_InitWithoutSnapshot ==
    (JustInitialized /\ ~(store.present /\ store.value # <<>>)) =>
        /\ Len(conversations) = 1
        /\ conversations[1].title = NewChat
        /\ conversations[1].messages = <<>>
        /\ currentConversationId = conversations[1].id

\* initialization has just completed from a stored empty list
C3_Witness == JustInitialized /\ store.present /\ store.value = <<>>

\* C4: deleteConversation(id) with id the current id: when other
\* conversations remain they are the collection and the first of them is
\* current; when none remains the collection is one newly made conversation,
\* which is current.  Either way the collection is not empty and the current
\* id names one of its conversations.
C4_DeleteCurrent ==
    [][ (lastOp'.op = "delete" /\ lastOp'.id = currentConversationId) =>
          LET others == SelectSeq(conversations, LAMBDA c : c.id # lastOp'.id)
          IN  /\ IF others # <<>>
                 THEN /\ conversations' = others
                      /\ currentConversationId' = others[1].id
                 ELSE /\ Len(conversations') = 1
                      /\ conversations'[1].id \notin Ids(conversations)
                      /\ conversations'[1].id # lastOp'.id
                      /\ conversations'[1].title = NewChat
                      /\ conversations'[1].messages = <<>>
                      /\ currentConversationId' = conversations'[1].id
              /\ Len(conversations') >= 1
              /\ currentConversationId' \in Ids(conversations') ]_vars

\* the current conversation, the second of three, has just been deleted: the
\* first and the third remain and the first is current
C4_Witness ==
    /\ lastOp.op = "delete" /\ lastOp.arg = lastOp.id
    /\ lastOp.id = 101
    /\ Len(conversations) = 2
    /\ conversations[1].id = 1 /\ conversations[2].id = 102
    /\ currentConversationId = 1

\* the single-character ellipsis the claim names; the code appends Dots
Ellipsis == <<8230>>
\* the titles C5 allows for a first user message with this content, the
\* ellipsis read as either rendering
C5_StatedTitles(content) ==
    IF Len(content) > TitleLimit
    THEN { SubSeq(content, 1, TitleLimit) \o Ellipsis,
           SubSeq(content, 1, TitleLimit) \o Dots }
    ELSE IF Trim(content) = <<>> THEN {NewChat} ELSE {content}

\* C5: after addMessage(id, m) with m.role = "user" on a conversation with no
\* messages, that conversation holds m as its only message and its title is
\* m.content (at most 30 code units), the first 30 code units of m.content
\* followed by the ellipsis (more than 30), or 'New Chat' (blank content):
\* the title update is not lost to the update that appends the message.
C5_FirstUserMessageTitles ==
    [][ lastOp'.op = "add" =>
          \A i \in At(conversations, lastOp'.id) :
              (conversations[i].messages = <<>> /\ lastOp'.arg.role = "user") =>
                  /\ conversations'[i].messages = <<lastOp'.arg>>
                  /\ conversations'[i].title \in C5_StatedTitles(lastOp'.arg.content) ]_vars

C8_StoreFollowsMemory ==
    (isInitialized /\ pending = {}) =>
        /\ store.present
        /\ Len(store.value) = Len(conversations)
        /\ \A i \in 1..Len(conversations) :
              /\ store.value[i].id = conversations[i].id
              /\ store.value[i].title = conversations[i].title
              /\ store.value[i].metaInformation = conversations[i].metaInformation
              /\ Len(store.value[i].messages) = Len(conversations[i].messages)
              /\ store.value[i].lastUpdated[2] = conversations[i].lastUpdated[2]
              /\ \A k \in 1..Len(conversations[i].messages) :
                    /\ store.value[i].messages[k].role = conversations[i].messages[k].role
                    /\ store.value[i].messages[k].content = conversations[i].messages[k].content
                    /\ store.value[i].messages[k].timestamp[2]
                          = conversations[i].messages[k].timestamp[2]

\* a conversation created in this session, holding a message, has been
\* written next to the two loaded ones
C8_Witness ==
    /\ isInitialized /\ pending = {}
    /\ Len(conversations) = 3
    /\ \E i \in 1..3 : conversations[i].id \notin OldIds /\ conversations[i].messages # <<>>

\* C9: persisting the collection and initializing from what was persisted
\* gives back the collection: the same conversations in the same order, with
\* lastUpdated and every message timestamp an instant equal to the original.
C9_RoundTrip ==
    (isInitialized /\ pending = {}) =>
        Revive(JSONStringify(conversations)) = conversations

\* C20: a clearConversations or clearCurrentConversation call whose
\* confirmation dialog is declined changes neither the collection, nor the
\* current id, nor the persisted snapshot, and schedules no effect that
\* would write it later.
C20_DeclinedChangesNothing ==
    [][ (lastOp'.op \in {"clearAll", "clearCurrent"} /\ lastOp'.arg = FALSE)
            => /\ conversations' = conversations
               /\ currentConversationId' = currentConversationId
               /\ store' = store
               /\ pending' = {}
               /\ isInitialized' = isInitialized
      ]_vars

\* clearCurrentConversation has just been declined on a current conversation
\* that holds a message and a derived title, with a second conversation in
\* the collection
C20_Witness ==
    /\ lastOp.op = "clearCurrent" /\ lastOp.arg = FALSE
    /\ Len(conversations) >= 2
    /\ \E i \in 1..Len(conversations) :
          /\ conversations[i].id = currentConversationId
          /\ conversations[i].messages # <<>>
          /\ conversations[i].title # NewChat
    /\ Len(store.value) = Len(conversations)

\* a text with nothing but white space in it (the empty text included)
Blank(text) == \A i \in 1..Len(text) : text[i] \in WhiteSpace

\* C23: updateConversationTitle(id, title) gives the conversation with that
\* id the title 'New Chat' when title is blank and title itself, untrimmed,
\* otherwise; its other fields, the other conversations, their order and the
\* current id are unchanged, and with an unknown id the collection is as it
\* was.
C23_UpdateTitle ==
    [][ lastOp'.op = "title" =>
            /\ Len(conversations') = Len(conversations)
            /\ \A i \in 1..Len(conversations) :
                  IF conversations[i].id = lastOp'.id
                  THEN /\ conversations'[i].title =
                            (IF Blank(lastOp'.arg) THEN NewChat ELSE lastOp'.arg)
                       /\ [conversations'[i] EXCEPT !.title = conversations[i].title]
                             = conversations[i]
                  ELSE conversations'[i] = conversations[i]
            /\ currentConversationId' = currentConversationId
      ]_vars

\* a conversation that holds a message has just been given a title with a
\* leading space, stored as passed, next to another conversation
C23_Witness ==
    /\ lastOp.op = "title" /\ ~Blank(lastOp.arg) /\ Head(lastOp.arg) \in WhiteSpace
    /\ Len(conversations) >= 2
    /\ \E i \in 1..Len(conversations) :
          /\ conversations[i].id = lastOp.id
          /\ conversations[i].title = lastOp.arg
          /\ conversations[i].messages # <<>>

\* C24: a confirmed clearCurrentConversation leaves the collection with the
\* same ids in the same order and the same current id; the current
\* conversation has no message, the title 'New Chat' and lastUpdated read
\* from the clock, its id and metaInformation kept; every other conversation
\* is as it was.
C24_ClearCurrentResets ==
    [][ (lastOp'.op = "clearCurrent" /\ lastOp'.arg = TRUE) =>
            /\ Len(conversations') = Len(conversations)
            /\ \A i \in 1..Len(conversations) :
                  IF conversations[i].id = currentConversationId
                  THEN conversations'[i] =
                          [id |-> conversations[i].id,
                           title |-> NewChat,
                           messages |-> <<>>,
                           lastUpdated |-> DateOf(now),
                           metaInformation |-> conversations[i].metaInformation]
                  ELSE conversations'[i] = conversations[i]
            /\ currentConversationId' = currentConversationId
      ]_vars

\* the current conversation, which had received a message, has just been
\* cleared and is still in the collection, next to a conversation that keeps
\* its message
C24_Witness ==
    /\ lastOp.op = "clearCurrent" /\ lastOp.arg = TRUE
    /\ currentConversationId \in received
    /\ \E i, j \in 1..Len(conversations) :
          /\ conversations[i].id = currentConversationId
          /\ conversations[i].messages = <<>>
          /\ conversations[i].title = NewChat
          /\ conversations[j].messages # <<>>

\* a conversation as createNewConversation makes it, with an id the
\* collection `held` does not have
IsNewIn(conv, held) ==
    /\ conv.id \notin Ids(held)
    /\ conv.title = NewChat
    /\ conv.messages = <<>>
    /\ conv.lastUpdated = DateOf(now)

\* C25: createNewConversation adds exactly one conversation, with an id no
\* conversation of the collection has, no message and the title 'New Chat';
\* the conversations held before follow it unchanged, the new one is current
\* and its id is the one returned.  A confirmed clearConversations leaves
\* exactly one conversation, made the same way, and it is current.
C25_CreateAddsOne ==
    [][ /\ lastOp'.op = "create" =>
              /\ Len(conversations') = Len(conversations) + 1
              /\ Tail(conversations') = conversations
              /\ IsNewIn(Head(conversations'), conversations)
              /\ currentConversationId' = Head(conversations').id
              /\ lastOp'.id = Head(conversations').id
        /\ (lastOp'.op = "clearAll" /\ lastOp'.arg = TRUE) =>
              /\ Len(conversations') = 1
              /\ IsNewIn(Head(conversations'), conversations)
              /\ currentConversationId' = Head(conversations').id
      ]_vars

\* createNewConversation has just added a third conversation in front of
\* two older ones, one of which holds a message
C25_Witness ==
    /\ lastOp.op = "create"
    /\ Len(conversations) = 3
    /\ currentConversationId = conversations[1].id
    /\ conversations[1].messages = <<>>
    /\ \E i \in 2..3 : conversations[i].messages # <<>>

\* ================================================== upload lifecycle manager
\* handler calls and request answers in one run of useFileUpload
MaxEvents == 5
\* files in one FileList
MaxFilesPerCall == 2

\* documentId: undefined
NoDoc == 0
\* a property the persisted record does not have
Undefined == "undefined"
\* the values x || d replaces by d
Falsy == {Undefined, ""}
OrElse(x, d) == IF x \in Falsy THEN d ELSE x

\* 'general' | 'technical' | 'business' | 'research' | 'other'
DocumentCategories == {"general", "technical", "business", "research", "other"}
\* category = 'general', the default of uploadFiles
DefaultCategory == "general"
\* the categories the callers pass to uploadFiles and to updateFileCategory
UploadCategories == {"technical"}
EditCategories == {"business"}

\* the File objects of a FileList: name and size
Files ==
    << [name |-> "a.pdf", size |-> 1], [name |-> "b.pdf", size |-> 2],
       [name |-> "c.pdf", size |-> 3] >>
\* the FileLists the file input hands over: the first n files, n = 0 for an
\* empty selection
FileLists == { SubSeq(Files, 1, n) : n \in 0..MaxFilesPerCall }
\* the run has a handler call or a request answer left
CanProceed == steps < MaxEvents
\* how one upload request ends: response.ok, a response that is not ok, or a
\* rejected fetch / response.json() promise
UploadOutcomes == {"ok", "rejected", "threw"}
\* how one DELETE request ends
DeleteOutcomes == {"ok", "rejected", "threw"}

\* mutant: the record of an accepted upload starts as 'pending'
ProcessingRecord_Pending(id, file, t, category, documentId) ==
    [id |-> id, name |-> file.name, size |-> file.size, uploadDate |-> DateOf(t),
     success |-> TRUE, category |-> category, processingStatus |-> "pending",
     documentId |-> documentId]
\* the record inserted for response.ok
ProcessingRecord(id, file, t, category, documentId) ==
    [id |-> id, name |-> file.name, size |-> file.size, uploadDate |-> DateOf(t),
     success |-> TRUE, category |-> category, processingStatus |-> "processing",
     documentId |-> documentId]
\* mutant: the record of a failed upload is marked successful
FailedRecord_Successful(id, file, t, category) ==
    [id |-> id, name |-> file.name, size |-> file.size, uploadDate |-> DateOf(t),
     success |-> TRUE, category |-> category, processingStatus |-> "failed",
     documentId |-> NoDoc]
\* the record inserted by the else branch and by the catch clause
FailedRecord(id, file, t, category) ==
    [id |-> id, name |-> file.name, size |-> file.size, uploadDate |-> DateOf(t),
     success |-> FALSE, category |-> category, processingStatus |-> "failed",
     documentId |-> NoDoc]

\* mutant: the local id is derived from the file instead of uuidv4()
NewFileId_FromFile(counter, file) == 1000 + file.size
\* uuidv4(): the identifier of the record made for `file`
NewFileId(counter, file) == counter

\* prev => [record, ...prev]
Inserted(prev, record) == <<record>> \o prev

\* the record one upload request leaves, by its outcome
RecordFor(outcome, id, file, t, category, documentId) ==
    IF outcome = "ok"
    THEN ProcessingRecord(id, file, t, category, documentId)
    ELSE FailedRecord(id, file, t, category)

\* mutant: the callback marks every record, not the one whose id it captured
Completed_Every(prev, newFileId) ==
    MapSeq(prev, LAMBDA f : [f EXCEPT !.processingStatus = "completed"])
\* the updater of the setTimeout callback
Completed(prev, newFileId) ==
    MapSeq(prev, LAMBDA f :
        IF f.id = newFileId THEN [f EXCEPT !.processingStatus = "completed"] ELSE f)

\* prev.filter(file => file.id !== fileId)
WithoutFile(prev, fileId) == SelectSeq(prev, LAMBDA file : file.id # fileId)

\* the updater of updateFileCategory
Recategorized(prev, fileId, newCategory) ==
    MapSeq(prev, LAMBDA file :
        IF file.id = fileId THEN [file EXCEPT !.category = newCategory] ELSE file)

\* mutant: the category is ignored
getFilesByCategory_Unfiltered(category) == uploadedFiles
\* getFilesByCategory
getFilesByCategory(category) ==
    IF category = "all"
    THEN uploadedFiles
    ELSE SelectSeq(uploadedFiles, LAMBDA file : file.category = category)

\* JSON.stringify(uploadedFiles), held as the value JSON.parse gives back
SerializeFile(file) == [file EXCEPT !.uploadDate = ToJSON(file.uploadDate)]
FilesToJSON(files) == MapSeq(files, SerializeFile)
\* mutant: the load mapping drops the documentId
ReviveFile_NoDocument(file) ==
    [file EXCEPT !.uploadDate = NewDate(file.uploadDate),
                 !.category = OrElse(file.category, DefaultCategory),
                 !.processingStatus = OrElse(file.processingStatus, "completed"),
                 !.documentId = NoDoc]
\* the load effect's mapping of a parsed snapshot
ReviveFile(file) ==
    [file EXCEPT !.uploadDate = NewDate(file.uploadDate),
                 !.category = OrElse(file.category, DefaultCategory),
                 !.processingStatus = OrElse(file.processingStatus, "completed")]
ReviveFiles(parsed) == MapSeq(parsed, ReviveFile)

\* records persisted by an earlier session: one written before records had
\* a category and a status, one persisted while processing
OldFileA ==
    [id |-> 201, name |-> "a.pdf", size |-> 1, uploadDate |-> IsoOf(0),
     success |-> TRUE, category |-> Undefined, processingStatus |-> Undefined,
     documentId |-> 901]
OldFileB ==
    [id |-> 202, name |-> "old.pdf", size |-> 3, uploadDate |-> IsoOf(0),
     success |-> FALSE, category |-> "technical", processingStatus |-> "failed",
     documentId |-> NoDoc]
StoredFileSnapshots == {Absent, Stored(<<OldFileA, OldFileB>>)}

\* useConversations not mounted
ConversationsDormant ==
    /\ conversations = <<>>
    /\ currentConversationId = Null
    /\ isInitialized = FALSE
    /\ store = Absent
    /\ pending = {}
    /\ strayed = FALSE
    /\ initRuns = 0
    /\ received = {}

UploadInit ==
    /\ ConversationsDormant
    /\ ListDormant
    /\ uploadedFiles = <<>>
    /\ isUploading = FALSE
    /\ fileStore \in StoredFileSnapshots
    /\ filePending = {"load", "save"}
    /\ calls = <<>>
    /\ timers = <<>>
    /\ deletions = {}
    /\ nextDoc = 1
    /\ issued = {[id |-> fileStore.value[i].id,
                  documentId |-> fileStore.value[i].documentId] :
                     i \in 1..Len(fileStore.value)}
    /\ nextId = 1
    /\ now = 1
    /\ lastOp = Op("mount", Null, <<>>)
    /\ steps = 0

\* handlers, responses and timers run once the effects of the last commit have
FilesIdle == filePending = {}

\* one pass of the effects scheduled by the last commit: the load effect (on
\* mount only), then the save effect, which has no latch
RunFileEffects ==
    /\ filePending # {}
    /\ IF "load" \in filePending /\ fileStore.present
       THEN /\ uploadedFiles' = ReviveFiles(fileStore.value)
            /\ filePending' = {"save"}
       ELSE /\ filePending' = {}
            /\ UNCHANGED uploadedFiles
    /\ fileStore' = IF "save" \in filePending
                    THEN Stored(FilesToJSON(uploadedFiles))
                    ELSE fileStore
    /\ lastOp' = Op("effects", Null, <<>>)
    /\ UNCHANGED <<isUploading, calls, timers, deletions, nextDoc, nextId, now>>
    /\ UNCHANGED <<conversationVars, listVars, steps, issued>>

\* uploadFiles(null): if (!files) return
uploadNoFiles ==
    /\ FilesIdle
    /\ UNCHANGED vars

\* mutant: the requests for all the remaining files are issued together
Requested_FanOut(files, index) == index..Len(files)
\* the requests the loop body issues for the file at `index` before it
\* suspends at await fetch(...)
Requested(files, index) == {index}

\* uploadFiles(files, category) up to its first await: the flag is set and the
\* request for the first file is issued; with no file the loop body never
\* runs and the flag is reset in the same batch
uploadFiles(files, category) ==
    /\ FilesIdle /\ CanProceed
    /\ steps' = steps + 1
    /\ isUploading' = (files # <<>>)
    /\ calls' = Append(calls,
            [files |-> files, category |-> category, index |-> 1,
             pc |-> IF files = <<>> THEN "done" ELSE "fetching",
             inflight |-> IF files = <<>> THEN {} ELSE Requested(files, 1),
             made |-> <<>>, fresh |-> TRUE, grown |-> 0])
    /\ lastOp' = Op("upload", Len(calls) + 1, files)
    /\ UNCHANGED <<uploadedFiles, fileStore, filePending, timers, deletions, nextDoc,
                   nextId, now>>
    /\ UNCHANGED <<conversationVars, listVars, issued>>

\* mutant: a failed upload ends the invocation where it is
LoopEnds_OnFailure(call, outcome) ==
    call.index = Len(call.files) \/ outcome # "ok"
\* the for-of loop has no file left after this one; no branch of its body
\* breaks, returns or throws
LoopEnds(call, outcome) == call.index = Len(call.files)

\* the request of invocation k for its current file ends: the record is
\* inserted, the completion is scheduled for an accepted file, and the loop
\* goes on to the next file or resets the flag
uploadResponse(k, outcome) ==
    /\ FilesIdle /\ CanProceed
    /\ steps' = steps + 1
    /\ calls[k].pc = "fetching"
    /\ LET call == calls[k]
           file == call.files[call.index]
           id == NewFileId(nextId, file)
           last == LoopEnds(call, outcome)
           next == Inserted(uploadedFiles,
                       RecordFor(outcome, id, file, now, call.category, nextDoc))
       IN  /\ uploadedFiles' = next
           /\ timers' = IF outcome = "ok" THEN Append(timers, id) ELSE timers
           /\ nextDoc' = IF outcome = "ok" THEN nextDoc + 1 ELSE nextDoc
           /\ isUploading' = IF last THEN FALSE ELSE isUploading
           /\ calls' = [calls EXCEPT ![k] =
                  [call EXCEPT !.index = call.index + 1,
                               !.pc = IF last THEN "done" ELSE "fetching",
                               !.inflight = (call.inflight \ {call.index}) \cup
                                   (IF last THEN {}
                                    ELSE Requested(call.files, call.index + 1)),
                               !.made = Append(call.made, id),
                               !.fresh = call.fresh /\ id \notin Ids(uploadedFiles),
                               !.grown = call.grown + Len(next) - Len(uploadedFiles)]]
    /\ nextId' = nextId + 1
    /\ now' = now + 1
    /\ filePending' = {"save"}
    /\ lastOp' = Op("response", NewFileId(nextId, calls[k].files[calls[k].index]),
                    [call |-> k, outcome |-> outcome])
    /\ issued' = issued \cup
          {[id |-> NewFileId(nextId, calls[k].files[calls[k].index]),
            documentId |-> IF outcome = "ok" THEN nextDoc ELSE NoDoc]}
    /\ UNCHANGED <<fileStore, deletions>>
    /\ UNCHANGED <<conversationVars, listVars>>

\* the oldest setTimeout callback fires
completionTimer ==
    /\ FilesIdle
    /\ timers # <<>>
    /\ uploadedFiles' = Completed(uploadedFiles, Head(timers))
    /\ timers' = Tail(timers)
    /\ filePending' = {"save"}
    /\ lastOp' = Op("timer", Head(timers), <<>>)
    /\ UNCHANGED <<isUploading, fileStore, calls, deletions, nextDoc, nextId, now>>
    /\ UNCHANGED <<conversationVars, listVars, steps, issued>>

deleteFile(fileId) ==
    /\ FilesIdle /\ CanProceed
    /\ steps' = steps + 1
    /\ uploadedFiles' = WithoutFile(uploadedFiles, fileId)
    /\ filePending' = {"save"}
    /\ lastOp' = Op("deleteFile", fileId, <<>>)
    /\ UNCHANGED <<isUploading, fileStore, calls, timers, deletions, nextDoc, nextId, now>>
    /\ UNCHANGED <<conversationVars, listVars, issued>>

\* mutant: a record is enough, with or without a documentId
HasDocument_AnyRecord(files, fileId) ==
    \E i \in 1..Len(files) : files[i].id = fileId
\* uploadedFiles.find(f => f.id === fileId) has a documentId
HasDocument(files, fileId) ==
    \E i \in 1..Len(files) : files[i].id = fileId /\ files[i].documentId # NoDoc
DocumentOf(files, fileId) ==
    files[CHOOSE i \in 1..Len(files) :
            /\ files[i].id = fileId
            /\ \A j \in 1..(i - 1) : files[j].id # fileId].documentId

\* deleteFileFromKnowledgeBase(fileId) up to its await
deleteFileFromKnowledgeBase(fileId) ==
    /\ FilesIdle /\ CanProceed
    /\ steps' = steps + 1
    /\ IF HasDocument(uploadedFiles, fileId)
       THEN /\ [fileId |-> fileId, documentId |-> DocumentOf(uploadedFiles, fileId)]
                  \notin deletions
            /\ deletions' = deletions \cup
                  {[fileId |-> fileId, documentId |-> DocumentOf(uploadedFiles, fileId)]}
            /\ UNCHANGED <<uploadedFiles, filePending>>
       ELSE /\ uploadedFiles' = WithoutFile(uploadedFiles, fileId)
            /\ filePending' = {"save"}
            /\ UNCHANGED deletions
    /\ lastOp' = Op("deleteRemote", fileId, <<>>)
    /\ UNCHANGED <<isUploading, fileStore, calls, timers, nextDoc, nextId, now>>
    /\ UNCHANGED <<conversationVars, listVars, issued>>

\* mutant: the record is removed whatever the DELETE request's answer
DeleteSucceeded_Whatever(outcome) == TRUE
\* if (response.ok): the fetch resolved and the status is 2xx
DeleteSucceeded(outcome) == outcome = "ok"

\* a DELETE request ends
deleteResponse(request, outcome) ==
    /\ FilesIdle /\ CanProceed
    /\ steps' = steps + 1
    /\ request \in deletions
    /\ deletions' = deletions \ {request}
    /\ IF DeleteSucceeded(outcome)
       THEN /\ uploadedFiles' = WithoutFile(uploadedFiles, request.fileId)
            /\ filePending' = {"save"}
       ELSE UNCHANGED <<uploadedFiles, filePending>>
    /\ lastOp' = Op("deleteResponse", request.fileId, outcome)
    /\ UNCHANGED <<isUploading, fileStore, calls, timers, nextDoc, nextId, now>>
    /\ UNCHANGED <<conversationVars, listVars, issued>>

updateFileCategory(fileId, newCategory) ==
    /\ FilesIdle /\ CanProceed
    /\ steps' = steps + 1
    /\ uploadedFiles' = Recategorized(uploadedFiles, fileId, newCategory)
    /\ filePending' = {"save"}
    /\ lastOp' = Op("category", fileId, newCategory)
    /\ UNCHANGED <<isUploading, fileStore, calls, timers, deletions, nextDoc, nextId, now>>
    /\ UNCHANGED <<conversationVars, listVars, issued>>

\* The component that uses the hook is unmounted and mounted again (or the
\* page is loaded again): the new instance starts from the initial state and
\* its effects are scheduled; the requests and timers of the old instance
\* end in updates of the old instance, which the new one never sees.
remount ==
    /\ FilesIdle /\ CanProceed
    /\ steps' = steps + 1
    /\ uploadedFiles' = <<>>
    /\ isUploading' = FALSE
    /\ filePending' = {"load", "save"}
    /\ calls' = <<>>
    /\ timers' = <<>>
    /\ deletions' = {}
    /\ lastOp' = Op("remount", Null, <<>>)
    /\ UNCHANGED <<fileStore, nextDoc, nextId, now>>
    /\ UNCHANGED <<conversationVars, listVars, issued>>

\* identifiers the callers pass: those on display, and one that is not
CallerFileIds == Ids(uploadedFiles) \cup {StrayId}

UploadNext ==
    \/ RunFileEffects
    \/ uploadNoFiles
    \/ \E files \in FileLists, category \in UploadCategories : uploadFiles(files, category)
    \/ \E k \in 1..Len(calls), outcome \in UploadOutcomes : uploadResponse(k, outcome)
    \/ completionTimer
    \/ \E fileId \in CallerFileIds : deleteFile(fileId)
    \/ \E fileId \in CallerFileIds : deleteFileFromKnowledgeBase(fileId)
    \/ \E request \in deletions, outcome \in DeleteOutcomes : deleteResponse(request, outcome)
    \/ \E fileId \in CallerFileIds, category \in EditCategories :
          updateFileCategory(fileId, category)
    \/ remount

UploadSpec == UploadInit /\ [][UploadNext]_vars

\* The browser's scheduling: a setTimeout callback that is due runs, and the
\* effects of a commit run.  Nothing obliges the user to call a handler or the
\* backend to answer.
UploadLive ==
    UploadSpec /\ WF_vars(completionTimer) /\ WF_vars(RunFileEffects)

\* ============================================================ upload claims
\* C10: every uploadFiles invocation adds exactly one record per file it has
\* got an answer for, whatever the answers are, so a finished invocation on N
\* files has added exactly N records; the local ids of its records are
\* pairwise distinct and none was held by a record of the collection when it
\* was inserted.
C10_OneRecordPerFile ==
    \A k \in 1..Len(calls) :
        LET call == calls[k]
        IN  /\ Len(call.made) = call.index - 1
            /\ call.grown = Len(call.made)
            /\ call.pc = "done" =>
                  /\ Len(call.made) = Len(call.files)
                  /\ call.grown = Len(call.files)
            /\ call.fresh
            /\ \A i, j \in 1..Len(call.made) : i # j => call.made[i] # call.made[j]

\* an invocation on two files has finished, one file accepted and one not,
\* next to the two records loaded from the store
C10_Witness ==
    \E k \in 1..Len(calls) :
        /\ calls[k].pc = "done"
        /\ Len(calls[k].files) = 2
        /\ Len(uploadedFiles) = 4
        /\ \E i, j \in 1..Len(uploadedFiles) :
              /\ uploadedFiles[i].id = calls[k].made[1]
              /\ uploadedFiles[j].id = calls[k].made[2]
              /\ uploadedFiles[i].processingStatus = "failed"
              /\ uploadedFiles[j].success

\* the records of the collection with this local id
FileAt(files, fileId) == {i \in 1..Len(files) : files[i].id = fileId}
\* the local ids of the records persisted by the earlier session
OldFileIds == {OldFileA.id, OldFileB.id}

\* C11: in every reachable state every record whose processingStatus is
\* 'failed', in the collection and in the persisted snapshot, has success =
\* false and no documentId, whichever error path made it and whatever category
\* edits and completion timers came after.
C11_FailedHasNoDocument ==
    /\ \A i \in 1..Len(uploadedFiles) :
          uploadedFiles[i].processingStatus = "failed" =>
              /\ ~uploadedFiles[i].success
              /\ uploadedFiles[i].documentId = NoDoc
    /\ \A i \in 1..Len(fileStore.value) :
          fileStore.value[i].processingStatus = "failed" =>
              /\ ~fileStore.value[i].success
              /\ fileStore.value[i].documentId = NoDoc

\* a record made by a failed upload of this run has had its category edited,
\* and the completion timer of another record has just fired
C11_Witness ==
    /\ lastOp.op = "timer"
    /\ \E i, j \in 1..Len(uploadedFiles) :
          /\ uploadedFiles[i].processingStatus = "failed"
          /\ uploadedFiles[i].id \notin OldFileIds
          /\ uploadedFiles[i].category \in EditCategories
          /\ uploadedFiles[j].id = lastOp.id
          /\ uploadedFiles[j].processingStatus = "completed"

\* C12: from one state to the next a record, identified by its local id,
\* keeps its processingStatus or goes from 'processing' to 'completed', the
\* latter only by the completion timer that captured its id: a completed
\* record never returns to 'processing' and a failed record stays failed.  A
\* record loaded from the persisted snapshot has the status persisted for it.
C12_StatusOnlyCompletes ==
    [][ /\ \A i \in 1..Len(uploadedFiles), j \in 1..Len(uploadedFiles') :
              uploadedFiles[i].id = uploadedFiles'[j].id =>
                  \/ uploadedFiles'[j].processingStatus = uploadedFiles[i].processingStatus
                  \/ /\ uploadedFiles[i].processingStatus = "processing"
                     /\ uploadedFiles'[j].processingStatus = "completed"
                     /\ lastOp'.op = "timer"
                     /\ lastOp'.id = uploadedFiles[i].id
        /\ ("load" \in filePending /\ fileStore.present) =>
              /\ Len(uploadedFiles') = Len(fileStore.value)
              /\ \A j \in 1..Len(uploadedFiles') :
                    /\ uploadedFiles'[j].id = fileStore.value[j].id
                    /\ fileStore.value[j].processingStatus
                          \in {"processing", "completed", "failed"}
                       => uploadedFiles'[j].processingStatus
                             = fileStore.value[j].processingStatus ]_vars

\* the completion timer of one accepted record has just fired and completed
\* it, while a later accepted record is still processing and the failed record
\* loaded from the store is still failed
C12_Witness ==
    /\ lastOp.op = "timer"
    /\ \E i, j, k \in 1..Len(uploadedFiles) :
          /\ uploadedFiles[i].id = lastOp.id
          /\ uploadedFiles[i].processingStatus = "completed"
          /\ uploadedFiles[j].processingStatus = "processing"
          /\ uploadedFiles[k].id = OldFileB.id
          /\ uploadedFiles[k].processingStatus = "failed"

\* the collection holds an accepted record with this local id
Accepted(fileId) ==
    \E i \in FileAt(uploadedFiles, fileId) : uploadedFiles[i].success
\* the collection holds a completed record with this local id
IsCompleted(fileId) ==
    \E i \in FileAt(uploadedFiles, fileId) :
        uploadedFiles[i].processingStatus = "completed"
\* no record with this local id is left, in the collection or in the store
Deleted(fileId) ==
    /\ FileAt(uploadedFiles, fileId) = {}
    /\ FileAt(fileStore.value, fileId) = {}
\* the local ids uuidv4() gives out in one run
RunFileIds == 1..MaxEvents

\* C13: every record inserted for an accepted upload is eventually completed
\* or deleted, whatever deletions, category edits, later uploads and remounts
\* (reloads of the collection from the persisted snapshot) come in between.
C13_EventuallyCompleted ==
    \A fileId \in RunFileIds :
        [](Accepted(fileId) => <>(IsCompleted(fileId) \/ Deleted(fileId)))

\* this step is the answer to a request of invocation k
Answered(k) ==
    k <= Len(calls') /\ calls[k].pc = "fetching" /\ calls'[k].index = calls[k].index + 1
\* this step is the one in which invocation k returns
Returns(k) == Answered(k) /\ calls'[k].pc = "done"
\* the records the collection holds for the accepted files of invocation k
AcceptedOf(files, call) ==
    {i \in 1..Len(files) :
        files[i].success /\ \E m \in 1..Len(call.made) : call.made[m] = files[i].id}

\* C14 (as stated): in the state in which an uploadFiles invocation returns,
\* every record it made for an accepted file has processingStatus
\* 'processing', however many files it had and however long the requests took.
C14_AllProcessingAtReturn ==
    [][ \A k \in 1..Len(calls) :
            Returns(k) =>
                \A i \in AcceptedOf(uploadedFiles', calls'[k]) :
                    uploadedFiles'[i].processingStatus = "processing" ]_vars

\* C14 (amended): a record made for an accepted file is 'processing' in the
\* state its insertion leaves, so when the invocation returns the record of
\* its last file, if accepted, is 'processing'; the records of its earlier
\* accepted files are 'processing' or, where their own delay has run out while
\* later requests were in flight, 'completed'.
C14_ProcessingAtInsertion ==
    [][ \A k \in 1..Len(calls) :
            /\ (Answered(k) /\ uploadedFiles'[1].success) =>
                    /\ uploadedFiles'[1].id = calls'[k].made[Len(calls'[k].made)]
                    /\ uploadedFiles'[1].processingStatus = "processing"
            /\ Returns(k) =>
                    \A i \in AcceptedOf(uploadedFiles', calls'[k]) :
                        uploadedFiles'[i].processingStatus \in {"processing", "completed"} ]_vars

\* an invocation on two files, both accepted, has just returned: the record
\* of the first file is completed already, that of the second is processing
C14_Witness ==
    /\ lastOp.op = "response"
    /\ Len(calls) >= lastOp.arg.call
    /\ LET call == calls[lastOp.arg.call]
       IN  /\ call.pc = "done"
           /\ Len(call.files) = 2
           /\ \E i, j \in AcceptedOf(uploadedFiles, call) :
                 /\ uploadedFiles[i].id = call.made[1]
                 /\ uploadedFiles[i].processingStatus = "completed"
                 /\ uploadedFiles[j].id = call.made[2]
                 /\ uploadedFiles[j].processingStatus = "processing"

\* the local id and documentId of a record, as the history holds them
Correlation(file) == [id |-> file.id, documentId |-> file.documentId]

\* C15: every record, in the collection and in the persisted snapshot, has the
\* documentId it was inserted with: the identifier the backend returned for an
\* accepted upload, none for a failed one.  No local id is ever correlated
\* with two values, so no operation (completion timer, category edit, reload
\* from the store) changes a documentId or gives one to a record without.
C15_DocumentIdFixed ==
    /\ \A i \in 1..Len(uploadedFiles) : Correlation(uploadedFiles[i]) \in issued
    /\ \A i \in 1..Len(fileStore.value) : Correlation(fileStore.value[i]) \in issued
    /\ \A a, b \in issued : a.id = b.id => a.documentId = b.documentId
    /\ \A i \in 1..Len(uploadedFiles) :
          uploadedFiles[i].documentId # NoDoc <=> uploadedFiles[i].success

\* an accepted record of this run, completed by its timer and with its
\* category edited, has been loaded again from the store after a remount and
\* still has its documentId
C15_Witness ==
    /\ filePending = {} /\ calls = <<>> /\ nextId > 1
    /\ \E i \in 1..Len(uploadedFiles) :
          /\ uploadedFiles[i].id \in RunFileIds
          /\ uploadedFiles[i].documentId # NoDoc
          /\ uploadedFiles[i].processingStatus = "completed"
          /\ uploadedFiles[i].category \in EditCategories

\* `after` is `before` without its record `fileId`: the other records are the
\* same, in the same order
RemovedExactly(before, after, fileId) ==
    \E i \in 1..Len(before) :
        /\ before[i].id = fileId
        /\ after = SubSeq(before, 1, i - 1) \o SubSeq(before, i + 1, Len(before))
\* the record `fileId` of the collection has a documentId
WithDocument(fileId) ==
    \E i \in FileAt(uploadedFiles, fileId) : uploadedFiles[i].documentId # NoDoc

\* C16: deleteFileFromKnowledgeBase on a record with a documentId issues one
\* DELETE request keyed by that documentId and leaves the collection alone;
\* when the request ends, the record is removed if the answer is ok, and on a
\* non-ok answer or a transport error the collection is unchanged; in every
\* case the call ends (the request is no longer in flight) with nothing else
\* of the hook's state touched.
C16_RemoteDeleteGated ==
    [][ /\ (lastOp'.op = "deleteRemote" /\ WithDocument(lastOp'.id))
            => /\ \E i \in FileAt(uploadedFiles, lastOp'.id) :
                     deletions' = deletions \cup
                         {[fileId |-> lastOp'.id,
                           documentId |-> uploadedFiles[i].documentId]}
               /\ deletions' # deletions
               /\ uploadedFiles' = uploadedFiles
               /\ fileStore' = fileStore
        /\ lastOp'.op = "deleteResponse"
            => /\ \E request \in deletions :
                     /\ request.fileId = lastOp'.id
                     /\ [id |-> request.fileId, documentId |-> request.documentId]
                            \in issued
                     /\ request.documentId # NoDoc
                     /\ deletions' = deletions \ {request}
               /\ IF lastOp'.arg = "ok"
                  THEN \/ RemovedExactly(uploadedFiles, uploadedFiles', lastOp'.id)
                       \/ /\ lastOp'.id \notin Ids(uploadedFiles)
                          /\ uploadedFiles' = uploadedFiles
                  ELSE uploadedFiles' = uploadedFiles
               /\ isUploading' = isUploading /\ calls' = calls /\ timers' = timers
      ]_vars

\* a DELETE request for a record of this run has ended in a transport error
\* and the record, with its documentId, is still in the collection
C16_Witness ==
    /\ lastOp.op = "deleteResponse" /\ lastOp.arg = "threw"
    /\ lastOp.id \in RunFileIds
    /\ WithDocument(lastOp.id)

\* C17: deleteFileFromKnowledgeBase on a record without a documentId removes
\* exactly that record, the other records staying as they were and in their
\* order, and issues no request.
C17_LocalDeleteOnly ==
    [][ (/\ lastOp'.op = "deleteRemote"
         /\ lastOp'.id \in Ids(uploadedFiles)
         /\ ~WithDocument(lastOp'.id))
            => /\ RemovedExactly(uploadedFiles, uploadedFiles', lastOp'.id)
               /\ lastOp'.id \notin Ids(uploadedFiles')
               /\ deletions' = deletions
      ]_vars

\* the failed record of this run has just been removed by
\* deleteFileFromKnowledgeBase, with no request in flight, and an accepted
\* record is still there
C17_Witness ==
    /\ lastOp.op = "deleteRemote" /\ lastOp.id \in RunFileIds
    /\ [id |-> lastOp.id, documentId |-> NoDoc] \in issued
    /\ lastOp.id \notin Ids(uploadedFiles)
    /\ deletions = {}
    /\ \E i \in 1..Len(uploadedFiles) : uploadedFiles[i].documentId # NoDoc

\* the positions of the collection whose record has category c
InCategory(c) == {i \in 1..Len(uploadedFiles) : uploadedFiles[i].category = c}
\* the position in the collection of a record of it
PositionOf(file) == CHOOSE i \in 1..Len(uploadedFiles) : uploadedFiles[i] = file

\* C18: in every state of the collection getFilesByCategory("all") is the
\* whole collection, and for every category c getFilesByCategory(c) holds the
\* records of category c, each once, in the order of the collection, and no
\* other record.
C18_GetByCategory ==
    /\ getFilesByCategory("all") = uploadedFiles
    /\ \A c \in DocumentCategories :
          LET result == getFilesByCategory(c) IN
          /\ Len(result) = Cardinality(InCategory(c))
          /\ \A i \in 1..Len(result) :
                \E k \in InCategory(c) : uploadedFiles[k] = result[i]
          /\ \A k \in InCategory(c) :
                \E i \in 1..Len(result) : result[i] = uploadedFiles[k]
          /\ \A i, j \in 1..Len(result) :
                i < j => PositionOf(result[i]) < PositionOf(result[j])

\* the collection holds records of three categories, two of them edited ones
\* that are not next to each other, and the selection by the edited category
\* skips the record between them
C18_Witness ==
    /\ filePending = {}
    /\ Len(uploadedFiles) >= 3
    /\ \E c \in EditCategories :
          /\ Len(getFilesByCategory(c)) = 2
          /\ \E i, j \in InCategory(c) : j > i + 1
    /\ getFilesByCategory(DefaultCategory) # <<>>

\* C21: an uploadFiles invocation has at most one upload request outstanding,
\* and while the request for its file i is outstanding the records of its
\* files 1..i-1, and no other record of it, have been inserted: the request
\* for the next file is issued only once the one before has ended and its
\* record is in.
C21_OneRequestPerInvocation ==
    \A k \in 1..Len(calls) :
        /\ Cardinality(calls[k].inflight) <= 1
        /\ \A i \in calls[k].inflight :
              /\ i \in 1..Len(calls[k].files)
              /\ Len(calls[k].made) = i - 1
              /\ calls[k].grown = i - 1
        /\ calls[k].inflight = {} => Len(calls[k].made) = Len(calls[k].files)

\* two invocations overlap; one of them, on two files, has had its first
\* request answered and waits for the answer to its second
C21_Witness ==
    /\ Len(calls) = 2
    /\ \A k \in 1..Len(calls) : calls[k].inflight # {}
    /\ \E k \in 1..Len(calls) :
          /\ calls[k].inflight = {2}
          /\ Len(calls[k].made) = 1
          /\ calls[k].made[1] \in Ids(uploadedFiles)

\* C22: when the request for one file ends in a rejection or a transport
\* failure, exactly one record is added in front of the collection, the
\* failed record of that file, and no completion is scheduled; the invocation
\* goes on: it issues the request for its next file, or, after its last
\* file, ends with isUploading reset to false.
C22_FailureAbsorbed ==
    [][ (lastOp'.op = "response" /\ lastOp'.arg.outcome # "ok") =>
            LET k == lastOp'.arg.call
                call == calls[k]
                file == call.files[call.index]
                record == uploadedFiles'[1]
            IN  /\ Len(uploadedFiles') = Len(uploadedFiles) + 1
                /\ SubSeq(uploadedFiles', 2, Len(uploadedFiles')) = uploadedFiles
                /\ record.id = lastOp'.id
                /\ record.name = file.name /\ record.size = file.size
                /\ record.category = call.category
                /\ ~record.success
                /\ record.processingStatus = "failed"
                /\ record.documentId = NoDoc
                /\ timers' = timers
                /\ IF call.index < Len(call.files)
                   THEN /\ calls'[k].pc = "fetching"
                        /\ calls'[k].index = call.index + 1
                        /\ calls'[k].inflight = {call.index + 1}
                   ELSE /\ calls'[k].pc = "done"
                        /\ calls'[k].inflight = {}
                        /\ isUploading' = FALSE
      ]_vars

\* an invocation on two files has ended: the request for its first file was
\* rejected or failed, the one for its second file has just thrown, both
\* failed records are in the collection and isUploading is false
C22_Witness ==
    /\ lastOp.op = "response" /\ lastOp.arg.outcome = "threw"
    /\ Len(calls) >= lastOp.arg.call
    /\ LET call == calls[lastOp.arg.call]
       IN  /\ call.pc = "done"
           /\ Len(call.files) = 2
           /\ \A m \in 1..2 : \E i \in 1..Len(uploadedFiles) :
                 /\ uploadedFiles[i].id = call.made[m]
                 /\ uploadedFiles[i].processingStatus = "failed"
    /\ isUploading = FALSE

\* the handlers that remove a record
DeleteOps == {"deleteFile", "deleteRemote", "deleteResponse"}

\* C26: a record leaves the persisted snapshot only in the write that follows
\* a delete of that record (deleteFile, or deleteFileFromKnowledgeBase at
\* once or on its request's answer); in particular mounting the hook on a
\* non-empty snapshot does not replace it by one with fewer records.
C26_StoreLosesOnlyDeleted ==
    [][ \A id \in Ids(fileStore.value) :
            id \notin Ids(fileStore'.value)
                => lastOp.op \in DeleteOps /\ lastOp.id = id ]_vars

\* invocation k has a request in flight (and with it, maybe, files left)
Active(k) == calls[k].pc = "fetching"

\* C27: isUploading is true exactly while some uploadFiles invocation is
\* active, also when two invocations overlap and end at different times.
C27_FlagFollowsInvocations ==
    isUploading <=> \E k \in 1..Len(calls) : Active(k)

\* ================================================= knowledge-base file list
\* ------------------------------------------------------------------ bounds
\* refresh calls in one run of useFileList
MaxRefreshes == 3

\* the FileEntry objects the backend holds
RemoteEntries == << [id |-> 901, name |-> "a.pdf"], [id |-> 902, name |-> "b.pdf"] >>
\* data.files of an answer of GET /documents/files
RemoteListings ==
    { <<>>, <<RemoteEntries[1]>>, <<RemoteEntries[2]>>, RemoteEntries }

\* how a request that does not give a listing ends: a non-2xx status, a
\* rejected fetch (TypeError), a body that is no FileListResponse (the error
\* of response.json() or of data.files.map), a rejection with a value that is
\* no Error
ListFailures == {"rejected", "threw", "malformed", "threwValue"}
\* the value the catch clause receives
Thrown(outcome) ==
    CASE outcome = "rejected" -> [isError |-> TRUE, message |-> "Failed to fetch files"]
      [] outcome = "threw" -> [isError |-> TRUE, message |-> "Failed to fetch"]
      [] outcome = "malformed" -> [isError |-> TRUE, message |-> ""]
      [] outcome = "threwValue" -> [isError |-> FALSE, message |-> "aborted"]
\* err instanceof Error ? err.message : 'An error occurred'
ErrorMessage(err) == IF err.isError THEN err.message ELSE "An error occurred"

\* processFileEntry, with the instant its new Date() reads
processFileEntry(entry, t) ==
    [id |-> entry.id, name |-> entry.name, originalName |-> entry.name,
     dateAdded |-> ToJSON(DateOf(t))]
\* data.files.map(processFileEntry): one reading of the clock per entry
ProcessedFiles(entries, t) ==
    [i \in 1..Len(entries) |-> processFileEntry(entries[i], t + i - 1)]

\* mutant: the catch clause leaves the view as it was
CaughtView_Stale(prev) == prev
\* setFiles([]) of the catch clause
CaughtView(prev) == <<>>

ListInit ==
    /\ ConversationsDormant
    /\ UploadDormant
    /\ kbFiles = <<>>
    /\ isLoading = TRUE
    /\ error = <<>>
    /\ listPending = TRUE
    /\ fetches = {}
    /\ latest = <<>>
    /\ nextId = 1
    /\ now = 1
    /\ lastOp = Op("mount", Null, <<>>)
    /\ steps = 0

\* the run has a refresh call left
CanRefresh == steps < MaxRefreshes

\* useEffect(() => { fetchFiles(); }, []): fetchFiles up to its await
listMount ==
    /\ listPending
    /\ listPending' = FALSE
    /\ isLoading' = TRUE
    /\ fetches' = fetches \cup {steps}
    /\ latest' = <<>>
    /\ lastOp' = Op("listMount", steps, <<>>)
    /\ UNCHANGED <<kbFiles, error, steps, nextId, now>>
    /\ UNCHANGED <<conversationVars, uploadVars>>

\* refresh: fetchFiles up to its await
fetchFiles ==
    /\ ~listPending /\ CanRefresh
    /\ steps' = steps + 1
    /\ isLoading' = TRUE
    /\ fetches' = fetches \cup {steps + 1}
    /\ latest' = <<>>
    /\ lastOp' = Op("refresh", steps + 1, <<>>)
    /\ UNCHANGED <<kbFiles, error, listPending, nextId, now>>
    /\ UNCHANGED <<conversationVars, uploadVars>>

\* the entries of a view without the instants they were mapped at
Listing(view) == [i \in 1..Len(view) |-> [id |-> view[i].id, name |-> view[i].name]]
\* what the call numbered `request` leaves in `latest` when it ends
Settled(request, view, message) ==
    IF request = steps THEN <<[view |-> Listing(view), error |-> message]>> ELSE latest

\* the request of call `request` ends with a listing: the rest of the try
\* block, then finally
listLoaded(request, entries) ==
    /\ request \in fetches
    /\ fetches' = fetches \ {request}
    /\ kbFiles' = ProcessedFiles(entries, now)
    /\ error' = <<>>
    /\ isLoading' = FALSE
    /\ now' = now + Len(entries)
    /\ latest' = Settled(request, ProcessedFiles(entries, now), <<>>)
    /\ lastOp' = Op("listLoaded", request, [held |-> kbFiles, entries |-> entries])
    /\ UNCHANGED <<listPending, steps, nextId>>
    /\ UNCHANGED <<conversationVars, uploadVars>>

\* the request of call `request` ends without one: the catch clause, then
\* finally
listFailed(request, outcome) ==
    /\ request \in fetches
    /\ fetches' = fetches \ {request}
    /\ error' = <<ErrorMessage(Thrown(outcome))>>
    /\ kbFiles' = CaughtView(kbFiles)
    /\ isLoading' = FALSE
    /\ latest' = Settled(request, <<>>, <<ErrorMessage(Thrown(outcome))>>)
    /\ lastOp' = Op("listFailed", request, [held |-> kbFiles, outcome |-> outcome])
    /\ UNCHANGED <<listPending, steps, nextId, now>>
    /\ UNCHANGED <<conversationVars, uploadVars>>

ListNext ==
    \/ listMount
    \/ fetchFiles
    \/ \E request \in fetches, entries \in RemoteListings : listLoaded(request, entries)
    \/ \E request \in fetches, outcome \in ListFailures : listFailed(request, outcome)

ListSpec == ListInit /\ [][ListNext]_vars

\* ======================================================== file list claims
\* C19: when a listing request ends in a failure (a non-2xx answer, a
\* transport error, an unreadable body), the view is empty and an error
\* message is held, whatever the view held before; when it ends with a
\* listing, the view is that listing entry by entry (id and name kept, the
\* name also as originalName) and the error is null.
C19_ListingOutcome ==
    [][ /\ lastOp'.op = "listFailed"
            => /\ kbFiles' = <<>>
               /\ error' # <<>>
               /\ Len(error') = 1
        /\ lastOp'.op = "listLoaded"
            => /\ Len(kbFiles') = Len(lastOp'.arg.entries)
               /\ \A i \in 1..Len(kbFiles') :
                     /\ kbFiles'[i].id = lastOp'.arg.entries[i].id
                     /\ kbFiles'[i].name = lastOp'.arg.entries[i].name
                     /\ kbFiles'[i].originalName = lastOp'.arg.entries[i].name
               /\ error' = <<>>
      ]_vars

\* a refresh has failed while the view held two entries loaded by an earlier
\* request: the view is empty and the message of the thrown Error is held
C19_Witness ==
    /\ lastOp.op = "listFailed"
    /\ Len(lastOp.arg.held) = 2
    /\ kbFiles = <<>>
    /\ error = <<"Failed to fetch files">>

\* C28: once every listing request has ended, the view, the error and the
\* loading flag are those the newest fetchFiles call left, in whatever order
\* the answers came; and the loading flag is false only while no listing
\* request is in flight.
C28_LastRefreshWins ==
    /\ (fetches = {} /\ ~listPending) =>
            /\ latest # <<>>
            /\ Listing(kbFiles) = latest[1].view
            /\ error = latest[1].error
            /\ ~isLoading
    /\ ~isLoading => fetches = {}

====
